---- MODULE Spec2Model ----
(***************************************************************************)
(* A model of the multi-user web chat server: the message codec            *)
(* (server/models.py), the bus client RedisManager (server/redis.py) and   *)
(* the connection registry and fan-out router WSMessageRouter              *)
(* (server/ws.py), started by on_startup (server/app.py).                  *)
(*                                                                         *)
(* asyncio runs the tasks of one process cooperatively: the code between   *)
(* two awaits is one atomic step, and every action below is one such step  *)
(* of one task.  The transport (aiohttp's WebSocketResponse) and the bus   *)
(* (Redis pub/sub) are the environment: their outcomes (a write that       *)
(* completes, hangs or fails; a close that completes, hangs or fails) are  *)
(* nondeterministic choices.                                               *)
(***************************************************************************)
EXTENDS Integers, Sequences, FiniteSets, TLC

(***************************************************************************)
(* Bounds of the model.                                                    *)
(***************************************************************************)
Conns == {"c1", "c2"}          \* the connections that may ever be attempted
MaxFrames == 2                 \* inbound text frames handled, all connections
MaxBusItems == 1               \* items the bus delivers to this process
MaxListenItems == 3            \* the same, for the listen loop on its own
MaxFanouts == 2                \* direct calls of the broadcast's fan-out
MaxCloseAllCalls == 2          \* calls of close_all_connections
MaxSends == 1                  \* direct calls of _send_to_peer per connection
MaxCalls == 5                  \* direct calls of the methods of RedisManager

NoneVal == [cls |-> "None"]

(***************************************************************************)
(* The codec, server/models.py.  A JSON text is modelled by its parse: a   *)
(* malformed text, a number, or an object with its keys and values.  A     *)
(* ChatMessage is a record of another shape, so encoding and decoding are  *)
(* conversions and not the identity.                                       *)
(***************************************************************************)
RequiredKeys == {"text", "type", "ts"}

ChatMessage(text, type, ts) ==
    [cls |-> "ChatMessage", text |-> text, type |-> type, ts |-> ts]

Msgs == {ChatMessage("hi", "message", 1000), ChatMessage("", "empty", 0)}

JsonObject(fields) == [json |-> "object", fields |-> fields]

MalformedText == [json |-> "malformed", fields |-> <<>>]

NumberText == [json |-> "number", fields |-> <<>>]

\* asdict(o): the three fields of the dataclass, by name
asdict(o) == [k \in RequiredKeys |-> o[k]]

\* an encoder that writes 0 for every ts
json_dumps_ZeroTs(obj) == JsonObject([k \in RequiredKeys |-> IF k = "ts" THEN 0 ELSE obj[k]])

json_dumps(obj) == JsonObject(asdict(obj))

MissingFieldText == JsonObject([k \in {"text"} |-> "x"])

ExtraFieldText ==
    JsonObject([k \in RequiredKeys \cup {"extra"} |->
                   IF k = "ts" THEN 123 ELSE "x"])

\* the texts a peer may send in a text frame
FrameTexts ==
    {MalformedText, MissingFieldText, ExtraFieldText} \cup {json_dumps(m) : m \in Msgs}

\* the items the bus may carry
BusTexts == FrameTexts \cup {NumberText}

Result(exc, val) == [exc |-> exc, val |-> val]

\* ChatMessage(**obj): keyword-only construction, an unexpected keyword is a TypeError
chat_message_decoder(fields) ==
    IF RequiredKeys \subseteq DOMAIN fields
    THEN IF DOMAIN fields = RequiredKeys
         THEN Result("none", ChatMessage(fields["text"], fields["type"], fields["ts"]))
         ELSE Result("TypeError", NoneVal)
    ELSE Result("none", [cls |-> "dict", fields |-> fields])

\* json.loads(s, object_hook=chat_message_decoder); JSONDecodeError is a ValueError
json_loads(s) ==
    CASE s.json = "malformed" -> Result("ValueError", NoneVal)
      [] s.json = "number"    -> Result("none", [cls |-> "int"])
      [] OTHER                -> chat_message_decoder(s.fields)

\* The names the class ChatMessage defines besides its three fields: none.
ChatMessageMethods == {}

\* ChatMessage.from_json(data) at ws.py:99: the attribute lookup on the class
from_json(data) ==
    IF "from_json" \in ChatMessageMethods
    THEN json_loads(data)
    ELSE Result("AttributeError", NoneVal)

\* message.to_json() at ws.py:111: the attribute lookup on the delivered value
to_json(message) ==
    IF "to_json" \in ChatMessageMethods /\ message.cls = "ChatMessage"
    THEN Result("none", json_dumps(message))
    ELSE Result("AttributeError", NoneVal)

(***************************************************************************)
(* State.                                                                  *)
(***************************************************************************)
VARIABLES
    appPc,            \* on_startup's position: created, connected, serving
    client,           \* RedisManager.client: None, open, aclosed
    listener_task,    \* RedisManager._listener_task: None, running, ...
    message_handler,  \* RedisManager._message_handler
    chan,             \* bus items delivered to this process, not yet received
    busCount,         \* number of items the bus has carried
    lastListen,       \* what the listen loop did with the last item it received
    nListened,        \* number of items the listen loop is done with
    clients,          \* WSMessageRouter.clients, the live set
    connPc,           \* per connection: absent, failed, reading, released
    closed,           \* per connection: the transport's closed flag
    closeLog,         \* per connection: the close calls made on the transport
    exitPath,         \* per connection: how its handler left the read loop
    nFrames,          \* number of text frames handled
    lastFrame,        \* the last text frame handled, with what _handle_text did
    garbageSeen,      \* per connection: a frame of it was dropped by _handle_text
    publishLog,       \* the messages passed to client.publish, in order
    caPc,             \* close_all_connections: idle, waiting
    caSnapshot,       \* its clients_snapshot
    caTask,           \* per connection: its close task under gather
    caCalls,          \* number of calls of close_all_connections
    caLast,           \* how the last call ended
    bcPc,             \* _broadcast_to_local_peers: idle, gathering
    bcItem,           \* the bus item being fanned out
    bcPayload,        \* its payload
    bcSnapshot,       \* its clients_snapshot
    bcSent0,          \* per connection: number of writes before the broadcast
    sendPc,           \* per connection: its _send_to_peer under gather
    sent,             \* per connection: the payloads written to the transport
    detached,         \* per connection: the detached close tasks created
    orphans,          \* listen loops still running that _listener_task no longer names
    discPc,           \* disconnect(): idle, awaiting (the cancelled listener task)
    lastCall,         \* the last direct call of a method of RedisManager, and its result
    nCalls            \* number of such calls

apiVars == <<orphans, discPc, lastCall, nCalls>>
busVars == <<appPc, client, listener_task, message_handler, chan, busCount, lastListen,
            nListened, apiVars>>
connVars == <<clients, connPc, closed, closeLog, exitPath>>
textVars == <<nFrames, lastFrame, garbageSeen, publishLog>>
caVars == <<caPc, caSnapshot, caTask, caCalls, caLast>>
bcVars == <<bcPc, bcItem, bcPayload, bcSnapshot, bcSent0, sendPc, sent, detached>>
vars == <<busVars, connVars, textVars, caVars, bcVars>>

\* RedisManager.__init__, then WSMessageRouter.__init__ (which registers the callback)
Init ==
    /\ appPc = "created"
    /\ client = "None"
    /\ listener_task = "None"
    /\ message_handler = "broadcast_to_local_peers"
    /\ chan = <<>>
    /\ busCount = 0
    /\ lastListen = NoneVal
    /\ nListened = 0
    /\ clients = {}
    /\ connPc = [c \in Conns |-> "absent"]
    /\ closed = [c \in Conns |-> FALSE]
    /\ closeLog = [c \in Conns |-> <<>>]
    /\ exitPath = [c \in Conns |-> "none"]
    /\ nFrames = 0
    /\ lastFrame = NoneVal
    /\ garbageSeen = [c \in Conns |-> FALSE]
    /\ publishLog = <<>>
    /\ caPc = "idle"
    /\ caSnapshot = {}
    /\ caTask = [c \in Conns |-> "none"]
    /\ caCalls = 0
    /\ caLast = "none"
    /\ bcPc = "idle"
    /\ bcItem = NoneVal
    /\ bcPayload = NoneVal
    /\ bcSnapshot = {}
    /\ bcSent0 = [c \in Conns |-> 0]
    /\ sendPc = [c \in Conns |-> "none"]
    /\ sent = [c \in Conns |-> <<>>]
    /\ detached = [c \in Conns |-> <<>>]
    /\ orphans = 0
    /\ discPc = "idle"
    /\ lastCall = NoneVal
    /\ nCalls = 0

(***************************************************************************)
(* Startup, server/app.py on_startup: connect(), then start_listen().      *)
(***************************************************************************)
OnStartupConnect ==
    /\ appPc = "created"
    /\ client = "None"                  \* connect(): raises when already set
    /\ client' = "open"
    /\ appPc' = "connected"
    /\ UNCHANGED <<listener_task, message_handler, chan, busCount, lastListen, nListened>>
    /\ UNCHANGED apiVars
    /\ UNCHANGED <<connVars, textVars, caVars, bcVars>>

OnStartupListen ==
    /\ appPc = "connected"
    /\ client # "None"                  \* start_listen(): raises when not connected
    /\ listener_task' = "running"
    /\ appPc' = "serving"
    /\ UNCHANGED <<client, message_handler, chan, busCount, lastListen, nListened>>
    /\ UNCHANGED apiVars
    /\ UNCHANGED <<connVars, textVars, caVars, bcVars>>

(***************************************************************************)
(* The bus: Redis pub/sub on the channel RedisManager.CHANNEL.  An item     *)
(* published while the listen loop of this process is subscribed is queued  *)
(* for it; every other subscriber gets its own copy the same way.           *)
(***************************************************************************)
Deliver(ch, item) == IF listener_task = "running" THEN Append(ch, item) ELSE ch

\* another publisher on the channel (another worker process of app.py main)
BusPublish(item) ==
    /\ listener_task # "None"
    /\ busCount' = busCount + 1
    /\ chan' = Deliver(chan, item)
    /\ UNCHANGED <<appPc, client, listener_task, message_handler, lastListen, nListened>>
    /\ UNCHANGED apiVars
    /\ UNCHANGED <<connVars, textVars, caVars, bcVars>>

ExternalPublish(item) ==
    /\ busCount < MaxBusItems
    /\ BusPublish(item)

\* the same publisher, for the listen loop on its own
ListenPublish(item) ==
    /\ busCount < MaxListenItems
    /\ BusPublish(item)

(***************************************************************************)
(* Connections, ws.py handler and _initialize_ws.                          *)
(***************************************************************************)
CloseCall(by, code, effective) == [by |-> by, code |-> code, effective |-> effective]

\* a handshake that registers a connection whose handler has released it
Accept_Again(c) ==
    /\ appPc = "serving"
    /\ connPc[c] \in {"absent", "released"}
    /\ connPc' = [connPc EXCEPT ![c] = "reading"]
    /\ clients' = clients \cup {c}
    /\ UNCHANGED <<closed, closeLog, exitPath>>
    /\ UNCHANGED <<busVars, textVars, caVars, bcVars>>

\* _initialize_ws up to the yield: ws.prepare(req) succeeded, clients.add(ws)
Accept(c) ==
    /\ appPc = "serving"
    /\ connPc[c] = "absent"
    /\ connPc' = [connPc EXCEPT ![c] = "reading"]
    /\ clients' = clients \cup {c}
    /\ UNCHANGED <<closed, closeLog, exitPath>>
    /\ UNCHANGED <<busVars, textVars, caVars, bcVars>>

\* a failed handshake that is registered all the same
HandshakeFail_Adds(c) ==
    /\ appPc = "serving"
    /\ connPc[c] = "absent"
    /\ connPc' = [connPc EXCEPT ![c] = "failed"]
    /\ clients' = clients \cup {c}
    /\ UNCHANGED <<closed, closeLog, exitPath>>
    /\ UNCHANGED <<busVars, textVars, caVars, bcVars>>

\* _initialize_ws when ws.prepare(req) raises: nothing is added
HandshakeFail(c) ==
    /\ appPc = "serving"
    /\ connPc[c] = "absent"
    /\ connPc' = [connPc EXCEPT ![c] = "failed"]
    /\ UNCHANGED <<clients, closed, closeLog, exitPath>>
    /\ UNCHANGED <<busVars, textVars, caVars, bcVars>>

\* a release that discards the connection and leaves its transport open
Release_NoClose(c, path) ==
    /\ clients' = clients \ {c}
    /\ connPc' = [connPc EXCEPT ![c] = "released"]
    /\ exitPath' = [exitPath EXCEPT ![c] = path]
    /\ UNCHANGED <<closed, closeLog>>

\* the finally block of _initialize_ws: clients.discard(ws), then ws.close(),
\* whose first step sets the closed flag when the transport is still open
Release(c, path) ==
    /\ clients' = clients \ {c}
    /\ closeLog' = [closeLog EXCEPT ![c] = Append(@, CloseCall("release", "OK", ~closed[c]))]
    /\ closed' = [closed EXCEPT ![c] = TRUE]
    /\ connPc' = [connPc EXCEPT ![c] = "released"]
    /\ exitPath' = [exitPath EXCEPT ![c] = path]

\* RedisManager.publish_message: not connected, a transport fault, or published
PublishOutcome(fault) ==
    IF client = "None" THEN "raised_not_connected"
    ELSE IF fault THEN "raised_publish"
    ELSE "published"

\* _handle_text: what it does with the frame's data
HandleTextOutcome(data, fault) ==
    LET r == from_json(data) IN
    IF r.exc = "ValueError" THEN "dropped"
    ELSE IF r.exc # "none" THEN "dropped_unexpected"
    ELSE PublishOutcome(fault)

\* handler, case WSMsgType.TEXT: await self._handle_text(message)
RecvText(c, data, fault) ==
    /\ appPc = "serving"
    /\ connPc[c] = "reading"
    /\ ~closed[c]
    /\ nFrames < MaxFrames
    /\ LET outcome == HandleTextOutcome(data, fault) IN
       /\ outcome = "published" => busCount < MaxBusItems
       /\ nFrames' = nFrames + 1
       /\ lastFrame' = [cls |-> "frame", conn |-> c, data |-> data, outcome |-> outcome]
       /\ garbageSeen' = [garbageSeen EXCEPT
                            ![c] = @ \/ outcome \in {"dropped", "dropped_unexpected"}]
       /\ IF outcome = "published"
          THEN /\ publishLog' = Append(publishLog, from_json(data).val)
               /\ chan' = Deliver(chan, json_dumps(from_json(data).val))
               /\ busCount' = busCount + 1
          ELSE UNCHANGED <<publishLog, chan, busCount>>
       /\ IF outcome \in {"raised_not_connected", "raised_publish"}
          THEN Release(c, "exception")
          ELSE UNCHANGED connVars
    /\ UNCHANGED <<appPc, client, listener_task, message_handler, lastListen, nListened>>
    /\ UNCHANGED apiVars
    /\ UNCHANGED <<caVars, bcVars>>

\* a frame that is not text is skipped and the read loop goes on
RecvNonText_Continue(c, kind) ==
    /\ appPc = "serving"
    /\ connPc[c] = "reading"
    /\ ~closed[c]
    /\ exitPath' = [exitPath EXCEPT ![c] = kind]
    /\ UNCHANGED <<clients, connPc, closed, closeLog>>
    /\ UNCHANGED <<busVars, textVars, caVars, bcVars>>

\* handler, case WSMsgType.ERROR and case _: break, then the release
RecvNonText(c, kind) ==
    /\ appPc = "serving"
    /\ connPc[c] = "reading"
    /\ ~closed[c]
    /\ Release(c, kind)
    /\ UNCHANGED <<busVars, textVars, caVars, bcVars>>

\* the peer closes: aiohttp answers the CLOSE frame and closes the transport
PeerClose(c) ==
    /\ connPc[c] = "reading"
    /\ ~closed[c]
    /\ closed' = [closed EXCEPT ![c] = TRUE]
    /\ closeLog' = [closeLog EXCEPT ![c] = Append(@, CloseCall("peer", "OK", TRUE))]
    /\ UNCHANGED <<clients, connPc, exitPath>>
    /\ UNCHANGED <<busVars, textVars, caVars, bcVars>>

\* handler: async for ends on a closed transport, then the release
HandlerExitClosed(c) ==
    /\ connPc[c] = "reading"
    /\ closed[c]
    /\ Release(c, "closed")
    /\ UNCHANGED <<busVars, textVars, caVars, bcVars>>

\* the handler task is cancelled while it waits for a frame, then the release
HandlerCancelled(c) ==
    /\ connPc[c] = "reading"
    /\ Release(c, "cancelled")
    /\ UNCHANGED <<busVars, textVars, caVars, bcVars>>

(***************************************************************************)
(* Shutdown, ws.py close_all_connections.                                  *)
(***************************************************************************)
CaFinished(c) == caTask[c] \in {"none", "done", "raised"}

\* a return that discards the members of the snapshot only
CloseAllReturn_SnapshotOnly(how) ==
    /\ clients' = clients \ caSnapshot
    /\ caPc' = "idle"
    /\ caSnapshot' = {}
    /\ caTask' = [c \in Conns |-> "none"]
    /\ caLast' = how

\* the return after self.clients.clear()
CloseAllReturn(how) ==
    /\ clients' = {}
    /\ caPc' = "idle"
    /\ caSnapshot' = {}
    /\ caTask' = [c \in Conns |-> "none"]
    /\ caLast' = how

\* a call whose early return is taken on a non-empty live set instead
CloseAllCall_Inverted ==
    /\ caPc = "idle"
    /\ caCalls < MaxCloseAllCalls
    /\ caCalls' = caCalls + 1
    /\ IF clients # {}
       THEN /\ caLast' = "empty"
            /\ UNCHANGED <<caPc, caSnapshot, caTask, clients>>
       ELSE CloseAllReturn("gathered")
    /\ UNCHANGED <<connPc, closed, closeLog, exitPath>>
    /\ UNCHANGED <<busVars, textVars, bcVars>>

\* a call that makes a close task for every member of the snapshot
CloseAllCall_AllMembers ==
    /\ caPc = "idle"
    /\ caCalls < MaxCloseAllCalls
    /\ caCalls' = caCalls + 1
    /\ IF clients = {}
       THEN /\ caLast' = "empty"
            /\ UNCHANGED <<caPc, caSnapshot, caTask, clients>>
       ELSE /\ caPc' = "waiting"
            /\ caSnapshot' = clients
            /\ caTask' = [c \in Conns |-> IF c \in clients THEN "scheduled" ELSE "none"]
            /\ caLast' = "none"
            /\ UNCHANGED clients
    /\ UNCHANGED <<connPc, closed, closeLog, exitPath>>
    /\ UNCHANGED <<busVars, textVars, bcVars>>

\* the call: the early return, or the snapshot and one close task per open member
CloseAllCall ==
    /\ caPc = "idle"
    /\ caCalls < MaxCloseAllCalls
    /\ caCalls' = caCalls + 1
    /\ IF clients = {}
       THEN /\ caLast' = "empty"
            /\ UNCHANGED <<caPc, caSnapshot, caTask, clients>>
       ELSE IF \A c \in clients : closed[c]
       THEN CloseAllReturn("gathered")
       ELSE /\ caPc' = "waiting"
            /\ caSnapshot' = clients
            /\ caTask' = [c \in Conns |->
                            IF c \in clients /\ ~closed[c] THEN "scheduled" ELSE "none"]
            /\ caLast' = "none"
            /\ UNCHANGED clients
    /\ UNCHANGED <<connPc, closed, closeLog, exitPath>>
    /\ UNCHANGED <<busVars, textVars, bcVars>>

\* a close task starts: ws.close(code=GOING_AWAY), a no-op on a closed transport
CloseTaskRun(c) ==
    /\ caPc = "waiting"
    /\ caTask[c] = "scheduled"
    /\ closeLog' = [closeLog EXCEPT
                      ![c] = Append(@, CloseCall("close_all", "GOING_AWAY", ~closed[c]))]
    /\ closed' = [closed EXCEPT ![c] = TRUE]
    /\ caTask' = [caTask EXCEPT ![c] = IF closed[c] THEN "done" ELSE "closing"]
    /\ UNCHANGED <<clients, connPc, exitPath, caPc, caSnapshot, caCalls, caLast>>
    /\ UNCHANGED <<busVars, textVars, bcVars>>

\* a close task ends: the close handshake completed, or the close raised
CloseTaskDone(c, raised) ==
    /\ caPc = "waiting"
    /\ caTask[c] = "closing"
    /\ caTask' = [caTask EXCEPT ![c] = IF raised THEN "raised" ELSE "done"]
    /\ UNCHANGED <<caPc, caSnapshot, caCalls, caLast>>
    /\ UNCHANGED <<busVars, connVars, textVars, bcVars>>

\* gather(..., return_exceptions=True) is done: clear and return
CloseAllGathered ==
    /\ caPc = "waiting"
    /\ \A c \in Conns : CaFinished(c)
    /\ CloseAllReturn(IF \E c \in Conns : caTask[c] = "raised"
                      THEN "gathered_raised" ELSE "gathered")
    /\ UNCHANGED <<connPc, closed, closeLog, exitPath, caCalls>>
    /\ UNCHANGED <<busVars, textVars, bcVars>>

\* a timeout that returns with the live set as it is
CloseAllTimeout_NoClear ==
    /\ caPc = "waiting"
    /\ \A c \in Conns : caTask[c] # "scheduled"
    /\ \E c \in Conns : caTask[c] = "closing"
    /\ caPc' = "idle"
    /\ caSnapshot' = {}
    /\ caTask' = [c \in Conns |-> "none"]
    /\ caLast' = "timeout"
    /\ UNCHANGED <<clients, connPc, closed, closeLog, exitPath, caCalls>>
    /\ UNCHANGED <<busVars, textVars, bcVars>>

\* WS_CLOSE_TIMEOUT passes with a close still running: TimeoutError is caught
CloseAllTimeout ==
    /\ caPc = "waiting"
    /\ \A c \in Conns : caTask[c] # "scheduled"
    /\ \E c \in Conns : caTask[c] = "closing"
    /\ CloseAllReturn("timeout")
    /\ UNCHANGED <<connPc, closed, closeLog, exitPath, caCalls>>
    /\ UNCHANGED <<busVars, textVars, bcVars>>

(***************************************************************************)
(* The listen loop, redis.py _listen_loop, and the callback it awaits,      *)
(* ws.py _broadcast_to_local_peers.                                         *)
(***************************************************************************)
ListenEvent(item, outcome) ==
    [cls |-> "listen", item |-> item, outcome |-> outcome,
     handler |-> IF outcome \in {"callback_ok", "callback_raised"}
                 THEN message_handler ELSE "None"]

\* the loop is back at pubsub.listen() after one item
Listened(item, outcome) ==
    /\ lastListen' = ListenEvent(item, outcome)
    /\ nListened' = nListened + 1

\* a loop that an exception of the callback ends
ListenerRecv_RaiseEndsLoop ==
    /\ listener_task = "running"
    /\ chan # <<>>
    /\ bcPc = "idle"
    /\ chan' = Tail(chan)
    /\ LET item == Head(chan)
           r == json_loads(item)
           payload == to_json(r.val)
       IN IF r.exc = "ValueError"
          THEN Listened(item, "value_error") /\ UNCHANGED bcVars
          ELSE IF r.exc # "none"
          THEN Listened(item, "exception") /\ UNCHANGED bcVars
          ELSE IF message_handler = "None"
          THEN Listened(item, "no_handler") /\ UNCHANGED bcVars
          ELSE IF message_handler # "broadcast_to_local_peers"
          THEN \* a callback other than the router's: it returns
               Listened(item, "callback_ok") /\ UNCHANGED bcVars
          ELSE IF payload.exc # "none"
          THEN \* message.to_json() raised: caught by the loop's except Exception
               Listened(item, "callback_raised") /\ UNCHANGED bcVars
          ELSE \* the snapshot, and one _send_to_peer per member under gather
               /\ bcPc' = "gathering"
               /\ bcItem' = item
               /\ bcPayload' = payload.val
               /\ bcSnapshot' = clients
               /\ bcSent0' = [c \in Conns |-> Len(sent[c])]
               /\ sendPc' = [c \in Conns |-> IF c \in clients THEN "pending" ELSE "none"]
               /\ UNCHANGED <<lastListen, nListened, sent, detached>>
    /\ listener_task' = IF lastListen' # NoneVal /\ lastListen'.outcome = "callback_raised"
                        THEN "done" ELSE listener_task
    /\ UNCHANGED <<appPc, client, message_handler, busCount>>
    /\ UNCHANGED apiVars
    /\ UNCHANGED <<connVars, textVars, caVars>>

\* one item of pubsub.listen(): json_loads, then the callback if one is set
ListenerRecv ==
    /\ listener_task = "running"
    /\ chan # <<>>
    /\ bcPc = "idle"
    /\ chan' = Tail(chan)
    /\ LET item == Head(chan)
           r == json_loads(item)
           payload == to_json(r.val)
       IN IF r.exc = "ValueError"
          THEN Listened(item, "value_error") /\ UNCHANGED bcVars
          ELSE IF r.exc # "none"
          THEN Listened(item, "exception") /\ UNCHANGED bcVars
          ELSE IF message_handler = "None"
          THEN Listened(item, "no_handler") /\ UNCHANGED bcVars
          ELSE IF message_handler # "broadcast_to_local_peers"
          THEN \* a callback other than the router's: it returns
               Listened(item, "callback_ok") /\ UNCHANGED bcVars
          ELSE IF payload.exc # "none"
          THEN \* message.to_json() raised: caught by the loop's except Exception
               Listened(item, "callback_raised") /\ UNCHANGED bcVars
          ELSE \* the snapshot, and one _send_to_peer per member under gather
               /\ bcPc' = "gathering"
               /\ bcItem' = item
               /\ bcPayload' = payload.val
               /\ bcSnapshot' = clients
               /\ bcSent0' = [c \in Conns |-> Len(sent[c])]
               /\ sendPc' = [c \in Conns |-> IF c \in clients THEN "pending" ELSE "none"]
               /\ UNCHANGED <<lastListen, nListened, sent, detached>>
    /\ UNCHANGED <<appPc, client, listener_task, message_handler, busCount>>
    /\ UNCHANGED apiVars
    /\ UNCHANGED <<connVars, textVars, caVars>>

\* a transport fault that leaves the loop and ends the process
ListenerFault_Raises ==
    /\ listener_task = "running"
    /\ bcPc = "idle"
    /\ listener_task' = "done"
    /\ appPc' = "stopped"
    /\ UNCHANGED <<client, message_handler, chan, busCount, lastListen, nListened>>
    /\ UNCHANGED apiVars
    /\ UNCHANGED <<connVars, textVars, caVars, bcVars>>

\* a transport fault in pubsub: the outer except Exception logs and returns
ListenerFault ==
    /\ listener_task = "running"
    /\ bcPc = "idle"
    /\ listener_task' = "done"
    /\ UNCHANGED <<appPc, client, message_handler, chan, busCount, lastListen, nListened>>
    /\ UNCHANGED apiVars
    /\ UNCHANGED <<connVars, textVars, caVars, bcVars>>

\* the cancelled loop resumes: except CancelledError re-raises, the task is over
ListenerCancelled ==
    /\ listener_task = "cancelling"
    /\ listener_task' = "cancelled"
    /\ UNCHANGED <<appPc, client, message_handler, chan, busCount, lastListen, nListened>>
    /\ UNCHANGED apiVars
    /\ UNCHANGED <<connVars, textVars, caVars, bcVars>>

(***************************************************************************)
(* RedisManager.disconnect, redis.py 39-46, called by on_cleanup            *)
(* (server/app.py) once close_all_connections has returned.                 *)
(***************************************************************************)
\* a release that does not look whether a client is set
Aclose_Unguarded == client' = "aclosed"

\* if self.client: await self.client.aclose()
Aclose == client' = IF client = "None" THEN "None" ELSE "aclosed"

\* a first step that releases the channel without a look at the listener task
DisconnectStart_NoWait ==
    /\ discPc = "idle"
    /\ Aclose
    /\ UNCHANGED <<listener_task, discPc>>

\* up to the first await: cancel a task that is not done and await it, or,
\* with no task or a finished one, go on to the release
DisconnectStart ==
    /\ discPc = "idle"
    /\ IF listener_task \in {"running", "cancelling"}
       THEN /\ listener_task' = "cancelling"
            /\ discPc' = "awaiting"
            /\ UNCHANGED client
       ELSE /\ Aclose
            /\ UNCHANGED <<listener_task, discPc>>

\* the awaited task is over, CancelledError is suppressed: the release
DisconnectFinish ==
    /\ discPc = "awaiting"
    /\ listener_task \notin {"running", "cancelling"}
    /\ Aclose
    /\ discPc' = "idle"
    /\ UNCHANGED listener_task

OnCleanupDisconnect ==
    /\ appPc = "serving"
    /\ caCalls >= 1
    /\ caPc = "idle"
    /\ bcPc = "idle"
    /\ DisconnectStart
    /\ appPc' = IF discPc' = "awaiting" THEN "cleanup" ELSE "stopped"
    /\ UNCHANGED <<message_handler, chan, busCount, lastListen, nListened>>
    /\ UNCHANGED <<orphans, lastCall, nCalls>>
    /\ UNCHANGED <<connVars, textVars, caVars, bcVars>>

DisconnectResume ==
    /\ DisconnectFinish
    /\ appPc' = IF appPc = "cleanup" THEN "stopped" ELSE appPc
    /\ UNCHANGED <<message_handler, chan, busCount, lastListen, nListened>>
    /\ UNCHANGED <<orphans, lastCall, nCalls>>
    /\ UNCHANGED <<connVars, textVars, caVars, bcVars>>

(***************************************************************************)
(* on_cleanup as one coroutine, server/app.py 30-39: the return of         *)
(* close_all_connections and disconnect() up to its first await are one    *)
(* step, nothing else runs between them.                                   *)
(***************************************************************************)
\* on_cleanup after close_all_connections returned: disconnect() starts
OnCleanupGoesOn ==
    /\ DisconnectStart
    /\ appPc' = IF discPc' = "awaiting" THEN "cleanup" ELSE "stopped"

\* on_cleanup calls close_all_connections: its early return or its gather of
\* nothing lead straight to disconnect(), else it waits for its close tasks
OnCleanupCloseAll ==
    /\ appPc = "serving"
    /\ caPc = "idle"
    /\ bcPc = "idle"
    /\ caCalls = 0
    /\ caCalls' = caCalls + 1
    /\ IF clients = {}
       THEN /\ caLast' = "empty"
            /\ UNCHANGED <<caPc, caSnapshot, caTask, clients>>
            /\ OnCleanupGoesOn
       ELSE IF \A c \in clients : closed[c]
       THEN /\ CloseAllReturn("gathered")
            /\ OnCleanupGoesOn
       ELSE /\ caPc' = "waiting"
            /\ caSnapshot' = clients
            /\ caTask' = [c \in Conns |->
                            IF c \in clients /\ ~closed[c] THEN "scheduled" ELSE "none"]
            /\ caLast' = "none"
            /\ UNCHANGED <<clients, appPc, client, listener_task, discPc>>
    /\ UNCHANGED <<connPc, closed, closeLog, exitPath>>
    /\ UNCHANGED <<message_handler, chan, busCount, lastListen, nListened>>
    /\ UNCHANGED <<orphans, lastCall, nCalls>>
    /\ UNCHANGED <<textVars, bcVars>>

\* an on_cleanup that goes on to disconnect() while close tasks have not run
OnCleanupGathered_NoWait ==
    /\ appPc = "serving"
    /\ caPc = "waiting"
    /\ CloseAllReturn("gathered")
    /\ OnCleanupGoesOn
    /\ UNCHANGED <<connPc, closed, closeLog, exitPath, caCalls>>
    /\ UNCHANGED <<message_handler, chan, busCount, lastListen, nListened>>
    /\ UNCHANGED <<orphans, lastCall, nCalls>>
    /\ UNCHANGED <<textVars, bcVars>>

\* the gather is done: clear, return to on_cleanup, disconnect() starts
OnCleanupGathered ==
    /\ appPc = "serving"
    /\ caPc = "waiting"
    /\ \A c \in Conns : CaFinished(c)
    /\ CloseAllReturn(IF \E c \in Conns : caTask[c] = "raised"
                      THEN "gathered_raised" ELSE "gathered")
    /\ OnCleanupGoesOn
    /\ UNCHANGED <<connPc, closed, closeLog, exitPath, caCalls>>
    /\ UNCHANGED <<message_handler, chan, busCount, lastListen, nListened>>
    /\ UNCHANGED <<orphans, lastCall, nCalls>>
    /\ UNCHANGED <<textVars, bcVars>>

\* WS_CLOSE_TIMEOUT passes first: clear, return to on_cleanup, disconnect()
OnCleanupTimeout ==
    /\ appPc = "serving"
    /\ caPc = "waiting"
    /\ \A c \in Conns : caTask[c] # "scheduled"
    /\ \E c \in Conns : caTask[c] = "closing"
    /\ CloseAllReturn("timeout")
    /\ OnCleanupGoesOn
    /\ UNCHANGED <<connPc, closed, closeLog, exitPath, caCalls>>
    /\ UNCHANGED <<message_handler, chan, busCount, lastListen, nListened>>
    /\ UNCHANGED <<orphans, lastCall, nCalls>>
    /\ UNCHANGED <<textVars, bcVars>>

(***************************************************************************)
(* One send, ws.py _send_to_peer, and the end of the broadcast's gather.   *)
(* No behaviour of Spec reaches these steps: message.to_json() raises      *)
(* before the snapshot is taken.  SpecSend applies _send_to_peer to the    *)
(* accepted connections directly.                                          *)
(***************************************************************************)
SendOutcomes == {"OK", "CLOSED", "TIMEOUT", "INTERNAL_ERROR"}

DetachedClose(by, code) == [by |-> by, code |-> code, state |-> "scheduled"]

\* a send that starts the write without a look at peer.closed
SendStart_NoCheck(c) ==
    /\ sendPc[c] = "pending"
    /\ sendPc' = [sendPc EXCEPT ![c] = "writing"]
    /\ UNCHANGED <<bcPc, bcItem, bcPayload, bcSnapshot, bcSent0, sent, detached>>
    /\ UNCHANGED <<busVars, connVars, textVars, caVars>>

\* up to the first await: peer.closed returns CLOSED, else the write starts
SendStart(c) ==
    /\ sendPc[c] = "pending"
    /\ sendPc' = [sendPc EXCEPT ![c] = IF closed[c] THEN "CLOSED" ELSE "writing"]
    /\ UNCHANGED <<bcPc, bcItem, bcPayload, bcSnapshot, bcSent0, sent, detached>>
    /\ UNCHANGED <<busVars, connVars, textVars, caVars>>

\* peer.send_str(payload) completes within SEND_TIMEOUT
SendOk(c) ==
    /\ sendPc[c] = "writing"
    /\ sent' = [sent EXCEPT ![c] = Append(@, bcPayload)]
    /\ sendPc' = [sendPc EXCEPT ![c] = "OK"]
    /\ UNCHANGED <<bcPc, bcItem, bcPayload, bcSnapshot, bcSent0, detached>>
    /\ UNCHANGED <<busVars, connVars, textVars, caVars>>

\* a timeout that awaits the close itself before it returns
SendTimeout_AwaitsClose(c) ==
    /\ sendPc[c] = "writing"
    /\ closeLog' = [closeLog EXCEPT
                      ![c] = Append(@, CloseCall("send_timeout", "GOING_AWAY", ~closed[c]))]
    /\ closed' = [closed EXCEPT ![c] = TRUE]
    /\ sendPc' = [sendPc EXCEPT ![c] = "TIMEOUT"]
    /\ UNCHANGED <<clients, connPc, exitPath>>
    /\ UNCHANGED <<bcPc, bcItem, bcPayload, bcSnapshot, bcSent0, sent, detached>>
    /\ UNCHANGED <<busVars, textVars, caVars>>

\* a send whose timer never ends the wait for the write
SendTimeout_Hangs(c) ==
    /\ sendPc[c] = "writing"
    /\ sendPc' = [sendPc EXCEPT ![c] = "hung"]
    /\ UNCHANGED <<bcPc, bcItem, bcPayload, bcSnapshot, bcSent0, sent, detached>>
    /\ UNCHANGED <<busVars, connVars, textVars, caVars>>

\* SEND_TIMEOUT passes first: a detached close with GOING_AWAY is created
SendTimeout(c) ==
    /\ sendPc[c] = "writing"
    /\ detached' = [detached EXCEPT
                      ![c] = Append(@, DetachedClose("send_timeout", "GOING_AWAY"))]
    /\ sendPc' = [sendPc EXCEPT ![c] = "TIMEOUT"]
    /\ UNCHANGED <<bcPc, bcItem, bcPayload, bcSnapshot, bcSent0, sent>>
    /\ UNCHANGED <<busVars, connVars, textVars, caVars>>

\* the write raises: a detached close with INTERNAL_ERROR is created
SendError(c) ==
    /\ sendPc[c] = "writing"
    /\ detached' = [detached EXCEPT
                      ![c] = Append(@, DetachedClose("send_error", "INTERNAL_ERROR"))]
    /\ sendPc' = [sendPc EXCEPT ![c] = "INTERNAL_ERROR"]
    /\ UNCHANGED <<bcPc, bcItem, bcPayload, bcSnapshot, bcSent0, sent>>
    /\ UNCHANGED <<busVars, connVars, textVars, caVars>>

\* a detached close task that runs and leaves the transport as it is
DetachedCloseRun_NoClose(c, i) ==
    /\ i \in DOMAIN detached[c]
    /\ detached[c][i].state = "scheduled"
    /\ detached' = [detached EXCEPT ![c][i].state = "run"]
    /\ UNCHANGED <<clients, connPc, closed, closeLog, exitPath>>
    /\ UNCHANGED <<bcPc, bcItem, bcPayload, bcSnapshot, bcSent0, sendPc, sent>>
    /\ UNCHANGED <<busVars, textVars, caVars>>

\* the scheduler runs a detached close task: peer.close(code=...)
DetachedCloseRun(c, i) ==
    /\ i \in DOMAIN detached[c]
    /\ detached[c][i].state = "scheduled"
    /\ detached' = [detached EXCEPT ![c][i].state = "run"]
    /\ closeLog' = [closeLog EXCEPT
                      ![c] = Append(@, CloseCall(detached[c][i].by, detached[c][i].code,
                                                 ~closed[c]))]
    /\ closed' = [closed EXCEPT ![c] = TRUE]
    /\ UNCHANGED <<clients, connPc, exitPath>>
    /\ UNCHANGED <<bcPc, bcItem, bcPayload, bcSnapshot, bcSent0, sendPc, sent>>
    /\ UNCHANGED <<busVars, textVars, caVars>>

\* a detached close task ends: the close handshake completed, or the close
\* raised; the exception stays in the task, which nothing awaits
DetachedCloseEnd(c, i, how) ==
    /\ i \in DOMAIN detached[c]
    /\ detached[c][i].state = "run"
    /\ detached' = [detached EXCEPT ![c][i].state = how]
    /\ UNCHANGED <<bcPc, bcItem, bcPayload, bcSnapshot, bcSent0, sendPc, sent>>
    /\ UNCHANGED <<busVars, connVars, textVars, caVars>>

\* gather is done: every member whose result is not OK is discarded
BroadcastEnd ==
    /\ bcPc = "gathering"
    /\ \A c \in bcSnapshot : sendPc[c] \in SendOutcomes
    /\ clients' = clients \ {c \in bcSnapshot : sendPc[c] # "OK"}
    /\ Listened(bcItem, "callback_ok")
    /\ bcPc' = "idle"
    /\ bcItem' = NoneVal
    /\ bcPayload' = NoneVal
    /\ bcSnapshot' = {}
    /\ sendPc' = [c \in Conns |-> "none"]
    /\ UNCHANGED <<bcSent0, sent, detached>>
    /\ UNCHANGED <<connPc, closed, closeLog, exitPath>>
    /\ UNCHANGED <<appPc, client, listener_task, message_handler, chan, busCount>>
    /\ UNCHANGED apiVars
    /\ UNCHANGED <<textVars, caVars>>

Next ==
    \/ OnStartupConnect
    \/ OnStartupListen
    \/ \E item \in BusTexts : ExternalPublish(item)
    \/ \E c \in Conns : Accept(c)
    \/ \E c \in Conns : HandshakeFail(c)
    \/ \E c \in Conns, data \in FrameTexts, fault \in BOOLEAN : RecvText(c, data, fault)
    \/ \E c \in Conns, kind \in {"ERROR", "BINARY"} : RecvNonText(c, kind)
    \/ \E c \in Conns : PeerClose(c)
    \/ \E c \in Conns : HandlerExitClosed(c)
    \/ \E c \in Conns : HandlerCancelled(c)
    \/ CloseAllCall
    \/ \E c \in Conns : CloseTaskRun(c)
    \/ \E c \in Conns, raised \in BOOLEAN : CloseTaskDone(c, raised)
    \/ CloseAllGathered
    \/ CloseAllTimeout
    \/ ListenerRecv

Spec == Init /\ [][Next]_vars

(***************************************************************************)
(* The connections and the shutdown alone: the actions of Next that read   *)
(* or write the live set, the transports and close_all_connections.        *)
(***************************************************************************)
NextLifecycle ==
    \/ OnStartupConnect
    \/ OnStartupListen
    \/ \E c \in Conns : Accept(c)
    \/ \E c \in Conns : HandshakeFail(c)
    \/ \E c \in Conns, kind \in {"ERROR", "BINARY"} : RecvNonText(c, kind)
    \/ \E c \in Conns : PeerClose(c)
    \/ \E c \in Conns : HandlerExitClosed(c)
    \/ \E c \in Conns : HandlerCancelled(c)
    \/ CloseAllCall
    \/ \E c \in Conns : CloseTaskRun(c)
    \/ \E c \in Conns, raised \in BOOLEAN : CloseTaskDone(c, raised)
    \/ CloseAllGathered
    \/ CloseAllTimeout

SpecLifecycle == Init /\ [][NextLifecycle]_vars

(***************************************************************************)
(* The life of one process to its end: the connections, the listen loop    *)
(* with its transport faults, and on_cleanup's close_all_connections and   *)
(* disconnect.                                                             *)
(***************************************************************************)
NextShutdown ==
    \/ NextLifecycle
    \/ \E item \in BusTexts : ExternalPublish(item)
    \/ ListenerRecv
    \/ ListenerFault
    \/ ListenerCancelled
    \/ OnCleanupDisconnect
    \/ DisconnectResume

SpecShutdown == Init /\ [][NextShutdown]_vars

(***************************************************************************)
(* The life of one process with on_cleanup as the one caller of            *)
(* close_all_connections, as in server/app.py: startup, the connections,   *)
(* the listen loop, and on_cleanup from its first call to its end.         *)
(***************************************************************************)
NextCleanup ==
    \/ OnStartupConnect
    \/ OnStartupListen
    \/ \E c \in Conns : Accept(c)
    \/ \E c \in Conns : HandshakeFail(c)
    \/ \E c \in Conns, kind \in {"ERROR", "BINARY"} : RecvNonText(c, kind)
    \/ \E c \in Conns : PeerClose(c)
    \/ \E c \in Conns : HandlerExitClosed(c)
    \/ \E c \in Conns : HandlerCancelled(c)
    \/ \E item \in BusTexts : ExternalPublish(item)
    \/ ListenerRecv
    \/ ListenerFault
    \/ ListenerCancelled
    \/ OnCleanupCloseAll
    \/ \E c \in Conns : CloseTaskRun(c)
    \/ \E c \in Conns, raised \in BOOLEAN : CloseTaskDone(c, raised)
    \/ OnCleanupGathered
    \/ OnCleanupTimeout
    \/ DisconnectResume

SpecCleanup == Init /\ [][NextCleanup]_vars

(***************************************************************************)
(* The listen loop on its own: startup, connections, and a bus that        *)
(* delivers several items, each passed to the callback the router          *)
(* registered.                                                             *)
(***************************************************************************)
NextListen ==
    \/ OnStartupConnect
    \/ OnStartupListen
    \/ \E c \in Conns : Accept(c)
    \/ \E item \in BusTexts : ListenPublish(item)
    \/ ListenerRecv
    \/ ListenerFault

SpecListen == Init /\ [][NextListen]_vars

(***************************************************************************)
(* The handlers alone: the connections with their text and other frames,   *)
(* and close_all_connections.                                              *)
(***************************************************************************)
NextFrames ==
    \/ NextLifecycle
    \/ \E c \in Conns, data \in FrameTexts, fault \in BOOLEAN : RecvText(c, data, fault)

SpecFrames == Init /\ [][NextFrames]_vars

(***************************************************************************)
(* _send_to_peer called on its own, with any payload, on connections that  *)
(* were accepted: the peer may close, the handler may leave.               *)
(***************************************************************************)
InitSend ==
    /\ appPc = "serving"
    /\ client = "open"
    /\ listener_task = "running"
    /\ message_handler = "broadcast_to_local_peers"
    /\ chan = <<>>
    /\ busCount = 0
    /\ lastListen = NoneVal
    /\ nListened = 0
    /\ clients = Conns
    /\ connPc = [c \in Conns |-> "reading"]
    /\ closed = [c \in Conns |-> FALSE]
    /\ closeLog = [c \in Conns |-> <<>>]
    /\ exitPath = [c \in Conns |-> "none"]
    /\ nFrames = 0
    /\ lastFrame = NoneVal
    /\ garbageSeen = [c \in Conns |-> FALSE]
    /\ publishLog = <<>>
    /\ caPc = "idle"
    /\ caSnapshot = {}
    /\ caTask = [c \in Conns |-> "none"]
    /\ caCalls = 0
    /\ caLast = "none"
    /\ bcPc = "idle"
    /\ bcItem = NoneVal
    /\ bcPayload \in BusTexts
    /\ bcSnapshot = {}
    /\ bcSent0 = [c \in Conns |-> 0]
    /\ sendPc = [c \in Conns |-> "none"]
    /\ sent = [c \in Conns |-> <<>>]
    /\ detached = [c \in Conns |-> <<>>]
    /\ orphans = 0
    /\ discPc = "idle"
    /\ lastCall = NoneVal
    /\ nCalls = 0

\* the call _send_to_peer(peer, payload)
SendCall(c) ==
    /\ sendPc[c] = "none"
    /\ Len(sent[c]) + Len(detached[c]) < MaxSends
    /\ sendPc' = [sendPc EXCEPT ![c] = "pending"]
    /\ UNCHANGED <<bcPc, bcItem, bcPayload, bcSnapshot, bcSent0, sent, detached>>
    /\ UNCHANGED <<busVars, connVars, textVars, caVars>>

\* its return to the caller
SendReturn(c) ==
    /\ sendPc[c] \in SendOutcomes
    /\ sendPc' = [sendPc EXCEPT ![c] = "none"]
    /\ UNCHANGED <<bcPc, bcItem, bcPayload, bcSnapshot, bcSent0, sent, detached>>
    /\ UNCHANGED <<busVars, connVars, textVars, caVars>>

NextSend ==
    \/ \E c \in Conns : SendCall(c)
    \/ \E c \in Conns : SendStart(c)
    \/ \E c \in Conns : SendOk(c)
    \/ \E c \in Conns : SendTimeout(c)
    \/ \E c \in Conns : SendError(c)
    \/ \E c \in Conns : SendReturn(c)
    \/ \E c \in Conns, i \in 1..MaxSends : DetachedCloseRun(c, i)
    \/ \E c \in Conns, i \in 1..MaxSends, how \in {"done", "raised"} :
          DetachedCloseEnd(c, i, how)
    \/ \E c \in Conns : PeerClose(c)
    \/ \E c \in Conns : HandlerExitClosed(c)

SpecSend == InitSend /\ [][NextSend]_vars

\* the event loop runs every send that is ready, and the timer of wait_for
\* fires when the write has not ended by then
FairSpecSend ==
    /\ SpecSend
    /\ \A c \in Conns : WF_vars(SendStart(c))
    /\ \A c \in Conns : WF_vars(SendOk(c) \/ SendTimeout(c) \/ SendError(c))

(***************************************************************************)
(* RedisManager on its own, redis.py: its methods called one after another *)
(* in any order, as tests/test_redis.py calls them, with the listen loops  *)
(* the calls create running in between.                                    *)
(***************************************************************************)
Handlers == {"h1", "h2"}

Call(op, arg, result) == [cls |-> "call", op |-> op, arg |-> arg, result |-> result]

\* the caller is between two calls
CallReturns(op, arg, result) ==
    /\ lastCall' = Call(op, arg, result)
    /\ nCalls' = nCalls + 1

\* the listen loops of this client that have not ended
ActiveLoops == orphans + (IF listener_task \in {"running", "cancelling"} THEN 1 ELSE 0)

\* RedisManager.__init__ alone: no router has registered a callback
InitBus ==
    /\ appPc = "created"
    /\ client = "None"
    /\ listener_task = "None"
    /\ message_handler = "None"
    /\ chan = <<>>
    /\ busCount = 0
    /\ lastListen = NoneVal
    /\ nListened = 0
    /\ clients = {}
    /\ connPc = [c \in Conns |-> "absent"]
    /\ closed = [c \in Conns |-> FALSE]
    /\ closeLog = [c \in Conns |-> <<>>]
    /\ exitPath = [c \in Conns |-> "none"]
    /\ nFrames = 0
    /\ lastFrame = NoneVal
    /\ garbageSeen = [c \in Conns |-> FALSE]
    /\ publishLog = <<>>
    /\ caPc = "idle"
    /\ caSnapshot = {}
    /\ caTask = [c \in Conns |-> "none"]
    /\ caCalls = 0
    /\ caLast = "none"
    /\ bcPc = "idle"
    /\ bcItem = NoneVal
    /\ bcPayload = NoneVal
    /\ bcSnapshot = {}
    /\ bcSent0 = [c \in Conns |-> 0]
    /\ sendPc = [c \in Conns |-> "none"]
    /\ sent = [c \in Conns |-> <<>>]
    /\ detached = [c \in Conns |-> <<>>]
    /\ orphans = 0
    /\ discPc = "idle"
    /\ lastCall = NoneVal
    /\ nCalls = 0

\* a connect() that replaces the client it finds
Connect_Replace ==
    /\ discPc = "idle"
    /\ nCalls < MaxCalls
    /\ client' = "open"
    /\ CallReturns("connect", NoneVal, "ok")
    /\ UNCHANGED <<appPc, listener_task, message_handler, chan, busCount, lastListen,
                   nListened, orphans, discPc>>
    /\ UNCHANGED <<connVars, textVars, caVars, bcVars>>

\* connect(): raises when self.client is set, else creates the client
Connect ==
    /\ discPc = "idle"
    /\ nCalls < MaxCalls
    /\ IF client # "None"
       THEN /\ CallReturns("connect", NoneVal, "RuntimeError")
            /\ UNCHANGED client
       ELSE /\ client' = "open"
            /\ CallReturns("connect", NoneVal, "ok")
    /\ UNCHANGED <<appPc, listener_task, message_handler, chan, busCount, lastListen,
                   nListened, orphans, discPc>>
    /\ UNCHANGED <<connVars, textVars, caVars, bcVars>>

\* a start_listen() that creates its task and does not store it
StartListen_NoStore ==
    /\ discPc = "idle"
    /\ nCalls < MaxCalls
    /\ IF client = "None"
       THEN /\ CallReturns("start_listen", NoneVal, "RuntimeError")
            /\ UNCHANGED orphans
       ELSE /\ orphans' = orphans + 1
            /\ CallReturns("start_listen", NoneVal, "ok")
    /\ UNCHANGED <<appPc, client, listener_task, message_handler, chan, busCount,
                   lastListen, nListened, discPc>>
    /\ UNCHANGED <<connVars, textVars, caVars, bcVars>>

\* a start_listen() that creates its task whether or not a client is set
StartListen_NoGuard ==
    /\ discPc = "idle"
    /\ nCalls < MaxCalls
    /\ listener_task' = "running"
    /\ orphans' = IF listener_task \in {"running", "cancelling"}
                  THEN orphans + 1 ELSE orphans
    /\ CallReturns("start_listen", NoneVal, "ok")
    /\ UNCHANGED <<appPc, client, message_handler, chan, busCount, lastListen, nListened,
                   discPc>>
    /\ UNCHANGED <<connVars, textVars, caVars, bcVars>>

\* start_listen(): raises when no client is set, else creates a task for
\* _listen_loop and stores it in _listener_task, whatever task was there
StartListen ==
    /\ discPc = "idle"
    /\ nCalls < MaxCalls
    /\ IF client = "None"
       THEN /\ CallReturns("start_listen", NoneVal, "RuntimeError")
            /\ UNCHANGED <<listener_task, orphans>>
       ELSE /\ listener_task' = "running"
            /\ orphans' = IF listener_task \in {"running", "cancelling"}
                          THEN orphans + 1 ELSE orphans
            /\ CallReturns("start_listen", NoneVal, "ok")
    /\ UNCHANGED <<appPc, client, message_handler, chan, busCount, lastListen, nListened,
                   discPc>>
    /\ UNCHANGED <<connVars, textVars, caVars, bcVars>>

\* a set_message_handler(handler) that keeps a callback already registered
SetMessageHandler_KeepFirst(h) ==
    /\ discPc = "idle"
    /\ nCalls < MaxCalls
    /\ message_handler' = IF message_handler = "None" THEN h ELSE message_handler
    /\ CallReturns("set_message_handler", h, "ok")
    /\ UNCHANGED <<appPc, client, listener_task, chan, busCount, lastListen, nListened,
                   orphans, discPc>>
    /\ UNCHANGED <<connVars, textVars, caVars, bcVars>>

\* set_message_handler(handler)
SetMessageHandler(h) ==
    /\ discPc = "idle"
    /\ nCalls < MaxCalls
    /\ message_handler' = h
    /\ CallReturns("set_message_handler", h, "ok")
    /\ UNCHANGED <<appPc, client, listener_task, chan, busCount, lastListen, nListened,
                   orphans, discPc>>
    /\ UNCHANGED <<connVars, textVars, caVars, bcVars>>

\* publish_message(message): raises when no client is set, else json_dumps and
\* client.publish on CHANNEL, which may fail
Publish(m, fault) ==
    /\ discPc = "idle"
    /\ nCalls < MaxCalls
    /\ LET outcome == PublishOutcome(fault) IN
       /\ outcome = "published" => busCount < MaxBusItems
       /\ IF outcome = "published"
          THEN /\ publishLog' = Append(publishLog, m)
               /\ chan' = Deliver(chan, json_dumps(m))
               /\ busCount' = busCount + 1
          ELSE UNCHANGED <<publishLog, chan, busCount>>
       /\ CallReturns("publish_message", m, outcome)
    /\ UNCHANGED <<appPc, client, listener_task, message_handler, lastListen, nListened,
                   orphans, discPc>>
    /\ UNCHANGED <<nFrames, lastFrame, garbageSeen>>
    /\ UNCHANGED <<connVars, caVars, bcVars>>

\* disconnect() up to its first await, or to its return
Disconnect ==
    /\ nCalls < MaxCalls
    /\ DisconnectStart
    /\ CallReturns("disconnect", NoneVal, IF discPc' = "awaiting" THEN "awaiting" ELSE "ok")
    /\ UNCHANGED <<appPc, message_handler, chan, busCount, lastListen, nListened, orphans>>
    /\ UNCHANGED <<connVars, textVars, caVars, bcVars>>

\* a transport fault ends a loop that _listener_task no longer names
OrphanFault ==
    /\ orphans > 0
    /\ orphans' = orphans - 1
    /\ UNCHANGED <<appPc, client, listener_task, message_handler, chan, busCount,
                   lastListen, nListened, discPc, lastCall, nCalls>>
    /\ UNCHANGED <<connVars, textVars, caVars, bcVars>>

NextBus ==
    \/ Connect
    \/ StartListen
    \/ \E h \in Handlers : SetMessageHandler(h)
    \/ \E m \in Msgs, fault \in BOOLEAN : Publish(m, fault)
    \/ Disconnect
    \/ DisconnectResume
    \/ \E item \in BusTexts : ExternalPublish(item)
    \/ ListenerRecv
    \/ ListenerFault
    \/ ListenerCancelled
    \/ OrphanFault

SpecBus == InitBus /\ [][NextBus]_vars

(***************************************************************************)
(* The fan-out of _broadcast_to_local_peers on its own, from the snapshot  *)
(* on, with a payload at hand: the sends under gather, the discard of      *)
(* every member whose result is not OK, and the detached close tasks.      *)
(***************************************************************************)
\* clients_snapshot = tuple(self.clients), one _send_to_peer per member
FanoutCall ==
    /\ bcPc = "idle"
    /\ nListened < MaxFanouts
    /\ bcPc' = "gathering"
    /\ bcItem' = bcPayload
    /\ bcSnapshot' = clients
    /\ bcSent0' = [c \in Conns |-> Len(sent[c])]
    /\ sendPc' = [c \in Conns |-> IF c \in clients THEN "pending" ELSE "none"]
    /\ UNCHANGED <<bcPayload, sent, detached>>
    /\ UNCHANGED <<busVars, connVars, textVars, caVars>>

NextFanout ==
    \/ FanoutCall
    \/ \E c \in Conns : SendStart(c)
    \/ \E c \in Conns : SendOk(c)
    \/ \E c \in Conns : SendTimeout(c)
    \/ \E c \in Conns : SendError(c)
    \/ BroadcastEnd
    \/ \E c \in Conns, i \in 1..MaxFanouts : DetachedCloseRun(c, i)
    \/ \E c \in Conns, i \in 1..MaxFanouts, how \in {"done", "raised"} :
          DetachedCloseEnd(c, i, how)
    \/ \E c \in Conns : PeerClose(c)
    \/ \E c \in Conns : HandlerExitClosed(c)

SpecFanout == InitSend /\ [][NextFanout]_vars

\* the event loop runs every send and every task that is ready, the detached
\* close tasks included, and gather returns when its sends have
FairSpecFanout ==
    /\ SpecFanout
    /\ \A c \in Conns : WF_vars(SendStart(c))
    /\ \A c \in Conns : WF_vars(SendOk(c) \/ SendTimeout(c) \/ SendError(c))
    /\ WF_vars(BroadcastEnd)
    /\ \A c \in Conns, i \in 1..MaxFanouts : WF_vars(DetachedCloseRun(c, i))

(***************************************************************************)
(* The codec on its own, models.py: json_dumps and json_loads applied to   *)
(* messages and texts, as tests/test_models.py applies them.               *)
(***************************************************************************)
CodecMsgs ==
    {ChatMessage(t, ty, ts) : t \in {"", "hi", "a b"}, ty \in {"message", "system"},
                              ts \in {0 - 1, 0, 1000}}

\* one object for every set of keys among text, type, ts and a key "extra"
CodecObjects ==
    {JsonObject([k \in K |-> IF k = "ts" THEN 7 ELSE "x"]) :
        K \in SUBSET (RequiredKeys \cup {"extra"})}

CodecInputs ==
    {MalformedText, NumberText} \cup CodecObjects \cup {json_dumps(m) : m \in CodecMsgs}

CodecDumps(m) ==
    /\ nCalls < MaxCalls
    /\ CallReturns("json_dumps", m, Result("none", json_dumps(m)))
    /\ UNCHANGED <<appPc, client, listener_task, message_handler, chan, busCount,
                   lastListen, nListened, orphans, discPc>>
    /\ UNCHANGED <<connVars, textVars, caVars, bcVars>>

CodecLoads(s) ==
    /\ nCalls < MaxCalls
    /\ CallReturns("json_loads", s, json_loads(s))
    /\ UNCHANGED <<appPc, client, listener_task, message_handler, chan, busCount,
                   lastListen, nListened, orphans, discPc>>
    /\ UNCHANGED <<connVars, textVars, caVars, bcVars>>

NextCodec ==
    \/ \E m \in CodecMsgs : CodecDumps(m)
    \/ \E s \in CodecInputs : CodecLoads(s)

SpecCodec == InitBus /\ [][NextCodec]_vars

(***************************************************************************)
(* Vocabulary of the properties.                                           *)
(***************************************************************************)
\* the text decodes to a message: an object with exactly text, type and ts
IsMessageText(t) == json_loads(t).exc = "none" /\ json_loads(t).val.cls = "ChatMessage"

\* this step ends a call of the callback _broadcast_to_local_peers
CallbackEnds ==
    /\ nListened' = nListened + 1
    /\ lastListen'.outcome \in {"callback_ok", "callback_raised"}

\* the snapshot of the broadcast that ends in this step, and the writes before it
EndingSnapshot == IF bcPc = "gathering" THEN bcSnapshot ELSE clients

WritesBefore(c) == IF bcPc = "gathering" THEN bcSent0[c] ELSE Len(sent[c])

\* the outcome of c's _send_to_peer in the broadcast that ends in this step
EndingOutcome(c) == IF bcPc = "gathering" THEN sendPc[c] ELSE "none"

\* this step handles one text frame of connection c carrying data
HandlesFrame(c, data) ==
    /\ nFrames' = nFrames + 1
    /\ lastFrame'.conn = c
    /\ lastFrame'.data = data

\* this step is a call of close_all_connections; this step is a return of it
CloseAllCalled == caCalls' = caCalls + 1

CloseAllReturns ==
    \/ CloseAllCalled /\ caPc' = "idle"
    \/ caPc = "waiting" /\ caPc' = "idle"

\* the close calls the server's code made on c's transport
ServerCloses(c) == SelectSeq(closeLog[c], LAMBDA e : e.by # "peer")

ReleaseCloses(c) == SelectSeq(closeLog[c], LAMBDA e : e.by = "release")

EffectiveCloses(c) == SelectSeq(closeLog[c], LAMBDA e : e.effective)

(***************************************************************************)
(* C1.  Fan-out correctness: when a call of the callback for a message the *)
(* bus delivered ends, every peer that was in the live set at the snapshot *)
(* and is still open has been sent exactly one more payload, and it is the *)
(* encoding of the delivered message.                                      *)
(***************************************************************************)
C1_FanOutExactlyOnce ==
    [][(CallbackEnds /\ IsMessageText(lastListen'.item)) =>
          \A c \in EndingSnapshot :
             ~closed'[c] =>
                /\ Len(sent'[c]) = WritesBefore(c) + 1
                /\ sent'[c][Len(sent'[c])] = json_dumps(json_loads(lastListen'.item).val)]_vars

(***************************************************************************)
(* C2.  Self-delivery: a valid message that a peer of this process submits *)
(* while the listen loop is active is published and is queued by the bus   *)
(* for this process's own listener, whose callback fans it out.            *)
(***************************************************************************)
C2_SelfDelivery ==
    [][\A c \in Conns, data \in FrameTexts :
          (HandlesFrame(c, data) /\ IsMessageText(data) /\ listener_task = "running") =>
              chan' = Append(chan, data)]_vars

(***************************************************************************)
(* C3.  Isolation: a broadcast leaves no snapshot member both unserved and *)
(* registered: whatever one member's transport does, every other member is *)
(* sent the message or, having failed, is out of the live set, and a       *)
(* member that was sent the message is still registered if it was before.  *)
(***************************************************************************)
C3_ServedOrRemoved ==
    [][(CallbackEnds /\ IsMessageText(lastListen'.item)) =>
          \A c \in EndingSnapshot :
             \/ c \notin clients'
             \/ /\ Len(sent'[c]) = WritesBefore(c) + 1
                /\ c \in clients]_vars

(***************************************************************************)
(* C4.  Garbage input is dropped: a frame that does not decode is dropped  *)
(* without a publish, its connection stays in the live set with its        *)
(* transport open, and a later valid frame of that connection is published.*)
(***************************************************************************)
C4_GarbageDroppedThenValidPublished ==
    [][\A c \in Conns, data \in FrameTexts :
          HandlesFrame(c, data) =>
             IF IsMessageText(data)
             THEN garbageSeen[c] =>
                     publishLog' = Append(publishLog, json_loads(data).val)
             ELSE /\ lastFrame'.outcome \in {"dropped", "dropped_unexpected"}
                  /\ publishLog' = publishLog
                  /\ c \in clients' /\ ~closed'[c]]_vars

(***************************************************************************)
(* C5.  Every text frame that carries a valid message causes exactly one   *)
(* publish, of a message with the frame's text, type and ts, and no other  *)
(* step publishes.                                                         *)
(***************************************************************************)
C5_ValidFramePublishedOnce ==
    [][/\ \A c \in Conns, data \in FrameTexts :
             (HandlesFrame(c, data) /\ IsMessageText(data)) =>
                 publishLog' = Append(publishLog, json_loads(data).val)
       /\ publishLog' # publishLog =>
             \E c \in Conns, data \in FrameTexts :
                 HandlesFrame(c, data) /\ IsMessageText(data)]_vars

(***************************************************************************)
(* C6 as stated.  Scoped release: once the handler of an accepted          *)
(* connection has left, the connection is out of the live set and the      *)
(* server's code paths together have closed its transport exactly once.    *)
(***************************************************************************)
C6_ClosedOnceOverAllPaths ==
    \A c \in Conns :
        connPc[c] = "released" =>
            /\ c \notin clients
            /\ closed[c]
            /\ Len(ServerCloses(c)) = 1

(***************************************************************************)
(* C6 as amended.  Once the handler of an accepted connection has left, on *)
(* every exit path, the connection is out of the live set, its transport   *)
(* is closed, the release made exactly one close call on it, and exactly   *)
(* one close in all (the release's, closeAll's, a failed send's or the     *)
(* peer's own) found the transport open: every other is a no-op.           *)
(***************************************************************************)
C6_ReleaseClosesOnce ==
    \A c \in Conns :
        connPc[c] = "released" =>
            /\ c \notin clients
            /\ closed[c]
            /\ Len(ReleaseCloses(c)) = 1
            /\ Len(EffectiveCloses(c)) = 1
            /\ exitPath[c] \in {"ERROR", "BINARY", "closed", "cancelled", "exception"}

\* a connection that close_all_connections closed and whose handler then released it
C6_Witness ==
    \E c \in Conns :
        /\ connPc[c] = "released"
        /\ Len(closeLog[c]) = 2
        /\ closeLog[c][1].by = "close_all"
        /\ closeLog[c][1].effective
        /\ ~closeLog[c][2].effective

(***************************************************************************)
(* C7.  Per-peer outcome handling: after a broadcast a snapshot member is  *)
(* in the live set only if it was there before and its send returned OK,   *)
(* every connection outside the snapshot is untouched, and the detached    *)
(* closes are one GOING_AWAY per TIMEOUT, one INTERNAL_ERROR per           *)
(* INTERNAL_ERROR and none otherwise.                                      *)
(***************************************************************************)
C7_RemovesExactlyTheFailed ==
    [][(CallbackEnds /\ IsMessageText(lastListen'.item)) =>
          /\ \A c \in EndingSnapshot :
                c \in clients' <=> (c \in clients /\ EndingOutcome(c) = "OK")
          /\ \A c \in Conns \ EndingSnapshot : c \in clients' <=> c \in clients
          /\ \A c \in EndingSnapshot :
                Len(detached'[c]) - Len(detached[c]) =
                    IF EndingOutcome(c) \in {"TIMEOUT", "INTERNAL_ERROR"} THEN 1 ELSE 0]_vars

(***************************************************************************)
(* C8.  Snapshot before fan-out: the callback raises nothing, whatever     *)
(* accepts and releases interleave with it, and completes a send attempt   *)
(* for every member of its snapshot.                                       *)
(***************************************************************************)
C8_BroadcastRaisesNothing ==
    [][CallbackEnds =>
          /\ lastListen'.outcome = "callback_ok"
          /\ \A c \in EndingSnapshot :
                EndingOutcome(c) \in {"OK", "CLOSED", "TIMEOUT", "INTERNAL_ERROR"}]_vars

(***************************************************************************)
(* C9.  closeAll always empties the registry: whenever                     *)
(* close_all_connections returns, the live set is empty, also when the     *)
(* closes exceeded the timeout or a close raised, and the return is a      *)
(* normal one.                                                             *)
(***************************************************************************)
C9_CloseAllEmptiesRegistry ==
    [][CloseAllReturns =>
          /\ clients' = {}
          /\ caLast' \in {"empty", "gathered", "gathered_raised", "timeout"}]_vars

\* a call that returned on the timeout, with a connection it had closed
C9_Witness ==
    /\ caPc = "idle"
    /\ caLast = "timeout"
    /\ clients = {}
    /\ \E c \in Conns : connPc[c] = "reading" /\ closed[c]

(***************************************************************************)
(* C10.  Idempotent shutdown: a call of close_all_connections on an empty  *)
(* live set returns at once, issues no close and changes nothing; so does  *)
(* the second of two calls in a row, the first having emptied the set; and *)
(* every return leaves zero live connections, traffic or not.              *)
(***************************************************************************)
C10_IdempotentShutdown ==
    [][/\ (CloseAllCalled /\ clients = {}) =>
             /\ caPc' = "idle"
             /\ caLast' = "empty"
             /\ UNCHANGED <<connVars, busVars, textVars, bcVars, caSnapshot, caTask>>
       /\ CloseAllReturns => clients' = {}]_vars

\* the second of two calls found the set the first one had emptied
C10_Witness ==
    /\ caCalls = 2
    /\ caLast = "empty"
    /\ \E c \in Conns : connPc[c] = "reading" /\ closed[c] /\ c \notin clients
    /\ nFrames = 0

(***************************************************************************)
(* Vocabulary of the properties of RedisManager.                           *)
(***************************************************************************)
\* this step is the return (or the first await) of a direct call of op
Calls(op) == nCalls' = nCalls + 1 /\ lastCall'.op = op

\* this step is a release of the channel resource: client.aclose()
Releases == client # "aclosed" /\ client' = "aclosed"

\* this step is the listen loop done with one item
LoopHandlesItem == nListened' = nListened + 1

(***************************************************************************)
(* C11 as stated.  Single listener: whatever the sequence of connect,      *)
(* start_listen and disconnect calls, at most one listen loop of the       *)
(* client is active, and a start_listen that succeeds leaves exactly one.  *)
(***************************************************************************)
C11_AtMostOneLoop ==
    [][/\ ActiveLoops' <= 1
       /\ (Calls("start_listen") /\ lastCall'.result = "ok") => ActiveLoops' = 1]_vars

(***************************************************************************)
(* C11 as amended.  A start_listen that succeeds creates exactly one new   *)
(* listen loop and makes it the client's listener task, no other step adds *)
(* a loop, and the first start_listen of a client leaves exactly one       *)
(* active loop; a start_listen while a loop is running leaves that loop    *)
(* running beside the new one.                                             *)
(***************************************************************************)
C11_OneLoopPerStartListen ==
    [][/\ ActiveLoops' > ActiveLoops =>
             Calls("start_listen") /\ lastCall'.result = "ok"
       /\ (Calls("start_listen") /\ lastCall'.result = "ok") =>
             /\ ActiveLoops' = ActiveLoops + 1
             /\ listener_task' = "running"
             /\ listener_task = "None" => ActiveLoops' = 1]_vars

\* a second start_listen has returned: two loops are active
C11_Witness ==
    /\ lastCall = Call("start_listen", NoneVal, "ok")
    /\ listener_task = "running"
    /\ ActiveLoops = 2

(***************************************************************************)
(* C13.  Duplicate connect is rejected: connect() on a connected client    *)
(* raises the already-connected error and leaves the client, the listener  *)
(* task, its loops and the registered callback as they are.                *)
(***************************************************************************)
C13_DuplicateConnectRejected ==
    [][(Calls("connect") /\ client = "open") =>
          /\ lastCall'.result = "RuntimeError"
          /\ UNCHANGED <<client, listener_task, message_handler, orphans, chan, busCount>>]_vars

\* the second connect() of a client that is listening has raised
C13_Witness ==
    /\ lastCall = Call("connect", NoneVal, "RuntimeError")
    /\ client = "open"
    /\ listener_task = "running"

(***************************************************************************)
(* C14.  Not-connected guard: publish_message() and start_listen() on a    *)
(* client that has no connection raise the not-connected error; nothing is *)
(* sent to the bus and no listener task is created.                        *)
(***************************************************************************)
C14_NotConnectedGuard ==
    [][/\ (Calls("publish_message") /\ client = "None") =>
             /\ lastCall'.result = "raised_not_connected"
             /\ UNCHANGED <<publishLog, chan, busCount, client, listener_task, orphans>>
       /\ (Calls("start_listen") /\ client = "None") =>
             /\ lastCall'.result = "RuntimeError"
             /\ listener_task' = listener_task
             /\ ActiveLoops' = ActiveLoops
             /\ UNCHANGED <<publishLog, chan, busCount, client>>]_vars

\* both calls have raised on a client that was never connected
C14_Witness ==
    /\ client = "None"
    /\ listener_task = "None"
    /\ nCalls >= 2
    /\ lastCall \in {Call("start_listen", NoneVal, "RuntimeError")}
                    \cup {Call("publish_message", m, "raised_not_connected") : m \in Msgs}

(***************************************************************************)
(* C15.  disconnect() with nothing connected (no client, no listener task) *)
(* is a no-op: it returns at once without an error, cancels nothing,       *)
(* releases nothing and leaves the state of the client as it is.           *)
(***************************************************************************)
C15_DisconnectNothingIsNoOp ==
    [][(Calls("disconnect") /\ client = "None" /\ listener_task = "None") =>
          /\ lastCall'.result = "ok"
          /\ discPc' = "idle"
          /\ UNCHANGED <<client, listener_task, message_handler, orphans, chan, busCount,
                         lastListen, nListened, publishLog>>]_vars

\* disconnect() has returned on a client that was never connected
C15_Witness ==
    /\ lastCall = Call("disconnect", NoneVal, "ok")
    /\ client = "None"
    /\ listener_task = "None"

(***************************************************************************)
(* C18.  Single callback slot, last write wins: set_message_handler stores *)
(* its argument in the one slot and nothing else writes the slot; for      *)
(* every item the loop decodes it invokes exactly the callback the slot    *)
(* holds when the item is handled, and none when the slot is empty.        *)
(***************************************************************************)
C18_LastHandlerWins ==
    [][/\ IF Calls("set_message_handler")
          THEN message_handler' = lastCall'.arg
          ELSE message_handler' = message_handler
       /\ LoopHandlesItem =>
             IF json_loads(lastListen'.item).exc # "none"
             THEN lastListen'.handler = "None"
             ELSE /\ lastListen'.handler = message_handler
                  /\ lastListen'.outcome =
                        IF message_handler = "None" THEN "no_handler" ELSE "callback_ok"]_vars

\* h2 was registered last and the loop has passed a message to it
C18_Witness ==
    /\ lastListen # NoneVal
    /\ lastListen.handler = "h2"
    /\ message_handler = "h2"
    /\ IsMessageText(lastListen.item)

\* this step is on_cleanup's call of disconnect()
CleanupDisconnects == appPc = "serving" /\ appPc' \in {"cleanup", "stopped"}

(***************************************************************************)
(* C12.  Disconnect ordering: disconnect() cancels a listener task that is *)
(* running and does not release the channel in that step; it releases the  *)
(* channel only when no listen loop is running or winding down; once the   *)
(* channel is released no loop receives an item or invokes the callback;   *)
(* and with a listener task that has already finished, disconnect()        *)
(* cancels nothing and releases the channel.                               *)
(***************************************************************************)
C12_DisconnectOrdering ==
    [][/\ (CleanupDisconnects /\ listener_task = "running") =>
             /\ listener_task' = "cancelling"
             /\ client' = client
       /\ (CleanupDisconnects /\ listener_task \in {"done", "cancelled"}) =>
             /\ listener_task' = listener_task
             /\ client' = "aclosed"
       /\ Releases => ActiveLoops' = 0
       /\ client = "aclosed" =>
             /\ ActiveLoops' = 0
             /\ nListened' = nListened
             /\ lastListen' = lastListen
             /\ sent' = sent]_vars

\* the loop handled an item, was cancelled by disconnect(), and the channel is released
C12_Witness ==
    /\ appPc = "stopped"
    /\ client = "aclosed"
    /\ listener_task = "cancelled"
    /\ nListened >= 1

(***************************************************************************)
(* C16.  Malformed bus items never stop the listener: an item that is not  *)
(* the encoding of a message (not JSON, not an object, a field missing, a  *)
(* field too many) is dropped without a call of the callback, the loop     *)
(* stays active, and an item that is a message is passed to the callback.  *)
(***************************************************************************)
C16_MalformedItemsDropped ==
    [][LoopHandlesItem =>
          /\ listener_task' = "running"
          /\ IF IsMessageText(lastListen'.item)
             THEN message_handler # "None" => lastListen'.handler = message_handler
             ELSE lastListen'.handler = "None"]_vars

(***************************************************************************)
(* C17.  Listener termination: the listen loop ends only by a transport    *)
(* fault or by the cancellation of disconnect(); a fault changes nothing   *)
(* else in the process; a loop that ended is not started again, and from   *)
(* then on no item is queued for or handled by this process and no peer is *)
(* written to, while publish_message still publishes and connections are   *)
(* still accepted, read and released.                                      *)
(***************************************************************************)
C17_ListenerEndsQuietly ==
    [][/\ (listener_task = "running" /\ listener_task' # "running") =>
             \/ /\ listener_task' = "done"
                /\ UNCHANGED <<appPc, client, message_handler, chan, connVars, textVars,
                               caVars, bcVars>>
             \/ listener_task' = "cancelling" /\ CleanupDisconnects
       /\ listener_task = "done" =>
             /\ listener_task' = "done"
             /\ UNCHANGED <<chan, nListened, lastListen, sent>>
             /\ appPc = "serving" =>
                   /\ PublishOutcome(FALSE) = "published"
                   /\ \A c \in Conns :
                         /\ connPc[c] = "absent" => ENABLED Accept(c)
                         /\ (connPc[c] = "reading" /\ ~closed[c]) =>
                               /\ ENABLED RecvText(c, MalformedText, FALSE)
                               /\ ENABLED RecvNonText(c, "ERROR")]_vars

\* the loop has ended by a fault; an item published since was not queued, a peer is connected
C17_Witness ==
    /\ listener_task = "done"
    /\ appPc = "serving"
    /\ busCount = 1
    /\ chan = <<>>
    /\ nListened = 0
    /\ \E c \in Conns : c \in clients /\ ~closed[c]

(***************************************************************************)
(* C19.  The router does not reorder: a broadcast of a delivered message   *)
(* appends that message, once, to what each peer that stays registered and *)
(* open has been sent, and nothing but a broadcast writes to a peer, so    *)
(* each such peer is sent the messages in the order of their delivery,     *)
(* none lost and none twice.                                               *)
(***************************************************************************)
C19_SentInDeliveryOrder ==
    [][/\ (CallbackEnds /\ IsMessageText(lastListen'.item)) =>
             \A c \in EndingSnapshot \cap clients' :
                ~closed'[c] =>
                   sent'[c] = Append(SubSeq(sent[c], 1, WritesBefore(c)),
                                     json_dumps(json_loads(lastListen'.item).val))
       /\ (bcPc = "idle" /\ bcPc' = "idle") => sent' = sent]_vars

(***************************************************************************)
(* C20.  A frame that is not a text frame ends its connection's read loop: *)
(* the step publishes nothing and writes to no peer, the connection is out *)
(* of the live set with its transport closed, every other connection is as *)
(* it was, and no later frame of the connection is handled.                *)
(***************************************************************************)
C20_NonTextFrameEndsLoop ==
    [][\A c \in Conns :
          /\ (connPc[c] = "reading" /\ exitPath'[c] \in {"ERROR", "BINARY"}
                 /\ exitPath[c] = "none") =>
                /\ connPc'[c] = "released"
                /\ c \notin clients'
                /\ closed'[c]
                /\ UNCHANGED <<publishLog, chan, busCount, sent, nFrames>>
                /\ \A d \in Conns \ {c} :
                      /\ d \in clients' <=> d \in clients
                      /\ connPc'[d] = connPc[d]
                      /\ closed'[d] = closed[d]
                      /\ closeLog'[d] = closeLog[d]
          /\ connPc[c] = "released" =>
                /\ connPc'[c] = "released"
                /\ ~(nFrames' = nFrames + 1 /\ lastFrame'.conn = c)]_vars

\* c1 left on a frame that is not text after a text frame of it was handled; c2 is still read
C20_Witness ==
    /\ connPc["c1"] = "released"
    /\ exitPath["c1"] \in {"ERROR", "BINARY"}
    /\ lastFrame # NoneVal
    /\ lastFrame.conn = "c1"
    /\ connPc["c2"] = "reading"
    /\ "c2" \in clients

\* the text is not the encoding of a message: not an object, or not exactly the three keys
NotAMessageText(s) == s.json # "object" \/ DOMAIN s.fields # RequiredKeys

(***************************************************************************)
(* C21.  Round-trip law of the codec: json_loads applied to what           *)
(* json_dumps returned for a message m returns, without an error, a        *)
(* message equal to m, the empty text and ts 0 included.                   *)
(***************************************************************************)
C21_RoundTrip ==
    [][(Calls("json_loads") /\ lastCall # NoneVal /\ lastCall.op = "json_dumps"
           /\ lastCall'.arg = lastCall.result.val) =>
          /\ lastCall'.result.exc = "none"
          /\ lastCall'.result.val = lastCall.arg]_vars

\* the message with the empty text and ts 0 was encoded and decoded again
C21_Witness ==
    /\ lastCall # NoneVal
    /\ lastCall.op = "json_loads"
    /\ lastCall.arg = json_dumps(ChatMessage("", "message", 0))
    /\ lastCall.result = Result("none", ChatMessage("", "message", 0))

(***************************************************************************)
(* C22.  Codec rejection: json_loads signals an error, and returns no      *)
(* value, for every text that is not JSON, for every object that lacks one *)
(* of text, type, ts, and for every object that has the three and more.    *)
(***************************************************************************)
C22_RejectsNonMessages ==
    [][(Calls("json_loads") /\ NotAMessageText(lastCall'.arg)) =>
          /\ lastCall'.result.exc # "none"
          /\ lastCall'.result.val = NoneVal]_vars

\* this step is the end of the write of c's send with the given outcome
SendEnds(c, outcome) == sendPc[c] = "writing" /\ sendPc'[c] = outcome

\* this step is a step of a detached close task of c
DetachedCloseSteps(c) == detached'[c] # detached[c] /\ Len(detached'[c]) = Len(detached[c])

(***************************************************************************)
(* C23.  Fire-and-forget close: a send that ends in TIMEOUT or             *)
(* INTERNAL_ERROR creates one detached close task and has its result in    *)
(* the same step, the transport not yet closed by it; the result can be    *)
(* returned whatever the close task does; and a step of a close task,      *)
(* also one that fails, changes no send's result, no peer's writes and     *)
(* not the live set.                                                       *)
(***************************************************************************)
C23_CloseIsDetached ==
    [][\A c \in Conns :
          /\ (SendEnds(c, "TIMEOUT") \/ SendEnds(c, "INTERNAL_ERROR")) =>
                /\ detached'[c] =
                      Append(detached[c],
                             IF sendPc'[c] = "TIMEOUT"
                             THEN DetachedClose("send_timeout", "GOING_AWAY")
                             ELSE DetachedClose("send_error", "INTERNAL_ERROR"))
                /\ UNCHANGED <<closed, closeLog, clients, sent>>
          /\ sendPc[c] \in {"TIMEOUT", "INTERNAL_ERROR"} => ENABLED SendReturn(c)
          /\ DetachedCloseSteps(c) =>
                UNCHANGED <<sendPc, sent, clients, listener_task>>]_vars

\* c1's send timed out and its close failed; c2 was sent the payload
C23_Witness ==
    /\ detached["c1"] # <<>>
    /\ detached["c1"][1].by = "send_timeout"
    /\ detached["c1"][1].state = "raised"
    /\ sent["c2"] = <<bcPayload>>

(***************************************************************************)
(* C24.  Bounded-time fan-out: every send that was started ends with an    *)
(* outcome; a write that has not completed when the timeout fires ends     *)
(* with the outcome TIMEOUT, a returned value that changes no other        *)
(* peer's send and not the listener.                                       *)
(***************************************************************************)
C24_SendsTerminate ==
    /\ \A c \in Conns : (sendPc[c] \in {"pending", "writing"}) ~> (sendPc[c] \in SendOutcomes)
    /\ [][\A c \in Conns :
             /\ sendPc'[c] \in {"none", "pending", "writing"} \cup SendOutcomes
             /\ SendEnds(c, "TIMEOUT") =>
                   /\ \A d \in Conns \ {c} : sendPc'[d] = sendPc[d]
                   /\ UNCHANGED <<sent, clients, listener_task, lastListen>>]_vars

\* c1's write hung and timed out while c2's write completed
C24_Witness ==
    /\ sendPc["c1"] = "TIMEOUT"
    /\ sent["c1"] = <<>>
    /\ sendPc["c2"] = "OK"

(***************************************************************************)
(* C27.  No write to a closed peer: a send that finds the transport closed *)
(* ends with CLOSED, writes nothing and creates no close; a write starts   *)
(* only on a transport found open at the start of the send; and a write    *)
(* that completes ends with OK, the payload written once.                  *)
(***************************************************************************)
C27_NoWriteToClosedPeer ==
    [][\A c \in Conns :
          /\ (sendPc[c] = "pending" /\ closed[c] /\ sendPc'[c] # "pending") =>
                /\ sendPc'[c] = "CLOSED"
                /\ UNCHANGED <<sent, detached, closeLog>>
          /\ (sendPc'[c] = "writing" /\ sendPc[c] # "writing") =>
                sendPc[c] = "pending" /\ ~closed[c]
          /\ (sendPc'[c] = "CLOSED" /\ sendPc[c] # "CLOSED") =>
                sendPc[c] = "pending" /\ closed[c]
          /\ (sent'[c] # sent[c] \/ SendEnds(c, "OK")) =>
                /\ SendEnds(c, "OK")
                /\ sent'[c] = Append(sent[c], bcPayload)]_vars

\* c1 was found closed and nothing was written to it; c2 was written to
C27_Witness ==
    /\ sendPc["c1"] = "CLOSED"
    /\ closed["c1"]
    /\ sent["c1"] = <<>>
    /\ detached["c1"] = <<>>
    /\ sendPc["c2"] = "OK"

\* c was in the live set and has been removed from it, or its handshake failed
Deregistered(c) == connPc[c] # "absent" /\ c \notin clients

(***************************************************************************)
(* C25.  Deregistration is terminal: a connection that has been removed    *)
(* from the live set is never added to it again, and a broadcast that      *)
(* starts when the connection is removed has it neither in its snapshot    *)
(* nor among the sends it starts.                                          *)
(***************************************************************************)
C25_DeregistrationIsTerminal ==
    [][\A c \in Conns :
          Deregistered(c) =>
             /\ c \notin clients'
             /\ bcSnapshot' # bcSnapshot => c \notin bcSnapshot'
             /\ ~(sendPc[c] = "none" /\ sendPc'[c] = "pending")]_vars

\* c1 has been released, c2 is live, and the loop is about to pass a message
\* of the bus to the broadcast
C25_Witness ==
    /\ connPc["c1"] = "released"
    /\ "c2" \in clients
    /\ listener_task = "running"
    /\ message_handler = "broadcast_to_local_peers"
    /\ chan # <<>>
    /\ IsMessageText(Head(chan))

\* the closes that close_all_connections made on c's transport
CloseAllCloses(c) == SelectSeq(closeLog[c], LAMBDA e : e.by = "close_all")

(***************************************************************************)
(* C26.  close_all_connections closes only what is open: the call makes a  *)
(* close task for exactly the members of its snapshot that are open at     *)
(* the call; a close with GOING_AWAY is made by such a task only, once;    *)
(* and when the call returns, every member that was open at the call has   *)
(* had exactly one close from it and every other connection none.          *)
(***************************************************************************)
C26_CloseAllClosesOpenOnly ==
    [][/\ (CloseAllCalled /\ caPc' = "waiting") =>
             /\ caSnapshot' = clients
             /\ \A c \in Conns : caTask'[c] = "scheduled" <=> (c \in clients /\ ~closed[c])
       /\ CloseAllCalled => closeLog' = closeLog
       /\ \A c \in Conns :
             CloseAllCloses(c)' # CloseAllCloses(c) =>
                /\ caTask[c] = "scheduled"
                /\ caTask'[c] # "scheduled"
                /\ closeLog'[c] = Append(closeLog[c],
                                         CloseCall("close_all", "GOING_AWAY", ~closed[c]))
       /\ (caPc = "waiting" /\ caPc' = "idle") =>
             \A c \in Conns :
                Len(CloseAllCloses(c)) =
                   IF c \in caSnapshot /\ caTask[c] # "none" THEN 1
                   ELSE IF c \in caSnapshot THEN 0
                   ELSE Len(CloseAllCloses(c))
       /\ \A c \in Conns : Len(CloseAllCloses(c)') <= 1]_vars

\* c1 was open at the call and its close is under way; c2 was closed at the
\* call and no close was made for it
C26_Witness ==
    /\ caPc = "waiting"
    /\ caSnapshot = Conns
    /\ caTask["c1"] = "closing"
    /\ Len(CloseAllCloses("c1")) = 1
    /\ caTask["c2"] = "none"
    /\ closed["c2"]
    /\ CloseAllCloses("c2") = <<>>

(***************************************************************************)
(* C30.  Registry membership: every member of the live set is a            *)
(* connection whose handshake succeeded and whose handler has not run its  *)
(* release; a connection whose handshake failed is not in the live set.    *)
(***************************************************************************)
C30_MembersAreRegistered ==
    /\ \A c \in clients : connPc[c] = "reading"
    /\ \A c \in Conns : connPc[c] \in {"absent", "failed", "released"} => c \notin clients

\* c1's handshake failed while c2 is in the live set
C30_Witness ==
    /\ connPc["c1"] = "failed"
    /\ "c1" \notin clients
    /\ connPc["c2"] = "reading"
    /\ "c2" \in clients

\* the loop has handled an item and the callback it awaited raised
CallbackRaised == lastListen # NoneVal /\ lastListen.outcome = "callback_raised"

(***************************************************************************)
(* C28.  A failing callback does not stop the listener: the step in which  *)
(* the callback raises leaves the loop running, with the rest of the       *)
(* channel still to be read; after it the loop can take the next item,     *)
(* and the next item that decodes is passed to the registered callback.    *)
(***************************************************************************)
C28_CallbackFailureKeepsLoop ==
    [][/\ (LoopHandlesItem /\ CallbackRaised') =>
             /\ listener_task' = "running"
             /\ chan' = Tail(chan)
             /\ UNCHANGED <<client, message_handler, clients, bcPc>>
       /\ (CallbackRaised /\ listener_task = "running" /\ chan # <<>>) =>
             ENABLED ListenerRecv
       /\ (CallbackRaised /\ LoopHandlesItem /\ json_loads(Head(chan)).exc = "none"
              /\ message_handler # "None") =>
             \/ /\ lastListen'.outcome \in {"callback_ok", "callback_raised"}
                /\ lastListen'.handler = message_handler
                /\ lastListen'.item = Head(chan)
             \/ bcPc' = "gathering" /\ bcItem' = Head(chan)]_vars

\* the callback has raised on two messages, the loop is still running and
\* the next message of the bus waits to be read
C28_Witness ==
    /\ CallbackRaised
    /\ nListened = 2
    /\ listener_task = "running"
    /\ clients # {}
    /\ chan # <<>>
    /\ IsMessageText(Head(chan))

(***************************************************************************)
(* C29.  disconnect() returns the client to the disconnected state: on a   *)
(* client that disconnect() has released, publish_message() and            *)
(* start_listen() raise the not-connected error, nothing is sent to the    *)
(* bus and no listener task is created.                                    *)
(***************************************************************************)
C29_DisconnectedAfterDisconnect ==
    [][/\ (Calls("publish_message") /\ client = "aclosed") =>
             /\ lastCall'.result = "raised_not_connected"
             /\ UNCHANGED <<publishLog, chan, busCount>>
       /\ (Calls("start_listen") /\ client = "aclosed") =>
             /\ lastCall'.result = "RuntimeError"
             /\ listener_task' = listener_task
             /\ ActiveLoops' = ActiveLoops]_vars

\* this step is the end of a fan-out that discards c for a failed send
DiscardsFailed(c) ==
    /\ bcPc = "gathering" /\ bcPc' = "idle"
    /\ sendPc[c] \in {"TIMEOUT", "INTERNAL_ERROR"}
    /\ c \in clients /\ c \notin clients'

\* a fan-out has discarded c for a failed send: a send to c failed and c is
\* out of the live set
DiscardedFailed(c) == detached[c] # <<>> /\ c \notin clients /\ sendPc[c] = "none"

(***************************************************************************)
(* C31.  No orphaned open connection after a failed send: a connection     *)
(* that a fan-out discards for a TIMEOUT or INTERNAL_ERROR outcome has a   *)
(* detached close task of that send, and, the scheduler running that task, *)
(* its transport is closed in the end.                                     *)
(***************************************************************************)
C31_FailedPeerIsClosed ==
    /\ \A c \in Conns : DiscardedFailed(c) ~> closed[c]
    /\ [][\A c \in Conns :
             DiscardsFailed(c) =>
                /\ detached[c] # <<>>
                /\ detached[c][Len(detached[c])].code =
                      (IF sendPc[c] = "TIMEOUT" THEN "GOING_AWAY" ELSE "INTERNAL_ERROR")
                /\ DiscardedFailed(c)']_vars

\* c1's send timed out, the fan-out discarded c1 while its handler still
\* reads, and the detached close has closed the transport
C31_Witness ==
    /\ "c1" \notin clients
    /\ connPc["c1"] = "reading"
    /\ bcPc = "idle"
    /\ closed["c1"]
    /\ closeLog["c1"] = <<CloseCall("send_timeout", "GOING_AWAY", TRUE)>>
    /\ "c2" \in clients

AcceptedWhileClosing(c) == caPc = "waiting" /\ connPc[c] = "reading" /\ c \notin caSnapshot

(***************************************************************************)
(* C33.  close_all_connections interleaved with an accept: a connection    *)
(* accepted while the call waits for its closes joins the live set but not *)
(* the snapshot, and the call makes no close task and no close for it; the *)
(* clear at the return removes it from the live set, open as it is; from   *)
(* then on it is never in the live set or in a broadcast's snapshot, and   *)
(* the only server code that closes its transport is its handler's         *)
(* release.                                                                *)
(***************************************************************************)
C33_AcceptDuringCloseAll ==
    [][\A c \in Conns :
          /\ (caPc = "waiting" /\ connPc[c] = "absent" /\ connPc'[c] = "reading") =>
                /\ c \in clients'
                /\ AcceptedWhileClosing(c)'
                /\ caTask'[c] = "none"
          /\ AcceptedWhileClosing(c) =>
                /\ caTask'[c] = "none"
                /\ CloseAllCloses(c)' = CloseAllCloses(c)
                /\ caPc' = "idle" =>
                      /\ c \notin clients'
                      /\ closed'[c] = closed[c]
                      /\ connPc'[c] = connPc[c]
          /\ (connPc[c] = "reading" /\ c \notin clients) =>
                /\ c \notin clients'
                /\ c \notin bcSnapshot'
                /\ sendPc'[c] \notin {"pending", "writing"}
                /\ ServerCloses(c)' # ServerCloses(c) =>
                      /\ connPc'[c] = "released"
                      /\ ServerCloses(c)' = Append(ServerCloses(c),
                                                   CloseCall("release", "OK", ~closed[c]))]_vars

\* close_all_connections has closed c1 and returned; c2, accepted while it
\* waited, is out of the live set, open, with its handler still reading
C33_Witness ==
    /\ caPc = "idle"
    /\ caCalls = 1
    /\ Len(CloseAllCloses("c1")) = 1
    /\ connPc["c2"] = "reading"
    /\ "c2" \notin clients
    /\ ~closed["c2"]
    /\ closeLog["c2"] = <<>>

\* this step is the start of on_cleanup's disconnect()
CleanupDisconnectStarts == appPc = "serving" /\ appPc' \in {"cleanup", "stopped"}

\* on_cleanup has returned
CleanupDone == appPc = "stopped"

(***************************************************************************)
(* C34.  Startup and shutdown sequencing: whenever a listen loop exists    *)
(* the router's callback is registered and the client is connected;        *)
(* start_listen() in on_startup finds the client connected and starts the  *)
(* loop; on_cleanup starts disconnect() only when close_all_connections    *)
(* has returned, its close tasks all started and the live set cleared;     *)
(* and after on_cleanup the live set is empty and no listen loop is        *)
(* active.                                                                 *)
(***************************************************************************)
C34_StartupAndShutdownSequencing ==
    /\ [](listener_task # "None" =>
             message_handler = "broadcast_to_local_peers" /\ client # "None")
    /\ [](appPc = "connected" => client = "open" /\ ENABLED OnStartupListen)
    /\ [](CleanupDone =>
             /\ clients = {}
             /\ listener_task \in {"done", "cancelled"}
             /\ orphans = 0
             /\ client = "aclosed"
             /\ caPc = "idle" /\ caCalls = 1)
    /\ [][/\ (listener_task = "None" /\ listener_task' # "None") =>
                /\ appPc = "connected" /\ appPc' = "serving"
                /\ listener_task' = "running"
          /\ CleanupDisconnectStarts =>
                /\ \A c \in Conns : caTask[c] # "scheduled"
                /\ caPc = "waiting" =>
                      (\A c \in Conns : CaFinished(c)) \/ caLast' = "timeout"
                /\ caPc' = "idle" /\ caCalls' = 1
                /\ clients' = {}
          /\ (listener_task' = "cancelling" \/ client' = "aclosed") =>
                appPc' \in {"cleanup", "stopped"}]_vars

\* on_cleanup has returned after it closed c1 and cancelled the running
\* listen loop; c1's handler has also left
C34_Witness ==
    /\ CleanupDone
    /\ listener_task = "cancelled"
    /\ caLast = "gathered"
    /\ Len(CloseAllCloses("c1")) = 1
    /\ connPc["c1"] = "released"
    /\ nListened >= 1
====
